---------------------------- MODULE Spec2Model ----------------------------
(***************************************************************************)
(* A model of notebooks/rd1.ipynb: the two embedding models' similarity    *)
(* computations (as tensor shapes), the synthetic data generation, the     *)
(* train/test split, the data loaders and the comparison harness           *)
(* run_comparison, and the kernel namespace the notebook's cells run in.   *)
(*                                                                         *)
(* Python values are modelled as follows.  A 1-D tensor or a list is a     *)
(* sequence (index 1 is Python's index 0), None is <<>> and a value that   *)
(* may be None is <<v>>.  A float produced by training is not computed:    *)
(* a metric is the number of the epoch that produced it.                   *)
(***************************************************************************)
EXTENDS Integers, Sequences, FiniteSets

(***************************************************************************)
(* Program constants.                                                      *)
(***************************************************************************)
\* torch.randint(..., (10,)): every generated sequence has 10 tokens.
SeqLen == 10
\* DataLoader(..., batch_size=32)
BatchSize == 32
\* A mutant of Epochs: epochs=10, the count the recorded output of cell 3
\* was produced with.
HalfEpochs == 20 \div 2

\* train_and_measure(..., epochs=20)
Epochs == 20
\* nn.MultiheadAttention(embedding_dim, num_heads=4, ...)
NumHeads == 4
\* label = (base_token + 3) % vocab_size
LabelOffset == 3
\* torch.randint(-2, 3, (10,)): noise lies in -2 .. 2
NoiseLow == -2
NoiseHigh == 3

(***************************************************************************)
(* Bounds of the model.                                                    *)
(***************************************************************************)
\* run_comparison is explored for dataset_size in 0 .. MaxDatasetSize when
\* the data generation is the subject.
MaxDatasetSize == 5
\* The random draws of the first GenFreeItems items are explored
\* exhaustively (within Vectors); later items take DefaultDraw.
GenFreeItems == 2
\* The cells' dataset sizes (2000, 5000, 10000) are capped at NotebookCap.
NotebookCap == 40
\* get_similarity is explored for batches of 1 .. MaxBatch pairs of
\* sequences of 1 .. MaxLen tokens.
MaxBatch == 3
MaxLen == 3

\* vocab_size values explored by the data generation: 3 makes
\* vocab_size // 4 = 0, 4 and 5 give one base token, 8 gives two.
GenVocabSizes == {3, 4, 8}
\* (vocab_size, dataset_size) explored with training: train sizes of
\* 32 (one full batch), 33 (a full batch and a batch of one) and 64.
RunVocabSizes == {4, 8}
RunDatasetSizes == {41, 42, 80}
\* embedding_dim values explored by get_similarity (MultiheadAttention
\* takes multiples of num_heads only).
EmbeddingDims == {4, 8}

None == <<>>
Some(v) == <<v>>

Min(a, b) == IF a < b THEN a ELSE b

(***************************************************************************)
(* Tensor arithmetic.                                                      *)
(***************************************************************************)
\* A mutant of Remainder: C's truncating remainder, whose sign follows the
\* dividend.
TruncRemainder(a, n) == IF a < 0 THEN -((-a) % n) ELSE a % n

\* Tensor % int is torch.remainder: the result has the sign of the divisor,
\* so for n > 0 it lies in 0 .. n-1 also when a is negative.
Remainder(a, n) == a % n

\* vocab_size // 4, the exclusive upper end of the token draws.
TokenHigh(V) == V \div 4

\* The length-10 vectors over S that the model explores: positions 0 .. 8
\* share one value and position 9 has its own, so the first and the last
\* token vary independently.
Vectors(S) ==
    { [i \in 1..SeqLen |-> IF i < SeqLen THEN a ELSE b] : a \in S, b \in S }

\* Pattern 1: the drawn tokens are the sequence; the label is the sum of the
\* first and the last token, modulo vocab_size.
Pattern1(seq, V) ==
    [seq |-> seq, label |-> Remainder(seq[1] + seq[SeqLen], V)]

\* A mutant of Pattern2: the label is read off the first token of the noisy
\* sequence instead of base_token.
Pattern2FromSeq(base_token, noise, V) ==
    [seq   |-> [i \in 1..SeqLen |-> Remainder(base_token + noise[i], V)],
     label |-> Remainder(Remainder(base_token + noise[1], V) + LabelOffset, V)]

\* Pattern 2: the sequence is base_token plus per-position noise, modulo
\* vocab_size; the label is base_token + 3, modulo vocab_size.
Pattern2(base_token, noise, V) ==
    [seq   |-> [i \in 1..SeqLen |-> Remainder(base_token + noise[i], V)],
     label |-> Remainder(base_token + LabelOffset, V)]

\* The noise vectors the model explores: the last position repeats the
\* others or takes an end of the noise range.
NoiseVectors ==
    { v \in Vectors(NoiseLow .. NoiseHigh - 1) :
        v[SeqLen] \in {v[1], NoiseLow, NoiseHigh - 1} }

\* The outcomes of the random draws of one loop iteration: the branch taken
\* by np.random.random() < 0.5 and the values torch.randint returns.
Draws(V) ==
    { [pattern |-> 1, base_token |-> None, vec |-> s] :
        s \in Vectors(0 .. TokenHigh(V) - 1) }
    \cup
    { [pattern |-> 2, base_token |-> Some(b), vec |-> n] :
        b \in 0 .. TokenHigh(V) - 1, n \in NoiseVectors }

\* The one draw taken for item i (0-based) once the free draws are used up.
DefaultDraw(i, V) ==
    IF i % 2 = 0
    THEN [pattern |-> 1, base_token |-> None,
          vec |-> [k \in 1..SeqLen |-> i % TokenHigh(V)]]
    ELSE [pattern |-> 2, base_token |-> Some(i % TokenHigh(V)),
          vec |-> [k \in 1..SeqLen |-> NoiseLow + (i % (NoiseHigh - NoiseLow))]]

\* The (sequence, label) computed from a draw.
Item(draw, V) ==
    IF draw.pattern = 1
    THEN Pattern1(draw.vec, V)
    ELSE Pattern2(draw.base_token[1], draw.vec, V)

\* sequences.append(seq)
SequencesAppend(list, seq) == Append(list, seq)

\* A mutant of LabelsAppend: the label is put in front of the list.
LabelsPrepend(list, label) == <<label>> \o list

\* labels.append(label)
LabelsAppend(list, label) == Append(list, label)

\* A mutant of TrainSize: the split is taken at 0.8 * n rounded up.
TrainSizeCeil(n) == (8 * n + 9) \div 10

\* int(0.8 * n): the double product 0.8 * n is never below 4n/5 (0.8 is
\* stored slightly above 4/5), so truncating it gives floor(4n/5).
TrainSize(n) == (8 * n) \div 10

\* list(zip(a, b))
Zip(a, b) == [i \in 1 .. Min(Len(a), Len(b)) |-> <<a[i], b[i]>>]

\* a[:k]
Take(a, k) == SubSeq(a, 1, Min(k, Len(a)))

\* a[k:]
Drop(a, k) == SubSeq(a, Min(k, Len(a)) + 1, Len(a))

(***************************************************************************)
(* Tensor shapes, for get_similarity.  A shape is the sequence of a        *)
(* tensor's dimension sizes; a 0-dim tensor has shape <<>>.                *)
(***************************************************************************)
\* nn.Embedding(vocab_size, D)(x): one D-vector per token id.
Embedding(x, D) == x \o <<D>>

\* The shape with dimension dim (0-based) removed: what a reduction over
\* dim returns (tensor.mean(dim), torch.sum(tensor, dim=dim)).
Reduce(t, dim) ==
    [i \in 1 .. Len(t) - 1 |-> IF i <= dim THEN t[i] ELSE t[i + 1]]

\* The dimension index a negative dim stands for.
WrapDim(t, dim) == IF dim < 0 THEN Len(t) + dim ELSE dim

\* Elementwise operations broadcast their operands: shapes are aligned at
\* the last dimension and a missing or size-1 dimension is stretched.
Broadcast(a, b) ==
    LET n == IF Len(a) > Len(b) THEN Len(a) ELSE Len(b)
        At(s, i) == IF i > n - Len(s) THEN s[i - (n - Len(s))] ELSE 1
    IN  [i \in 1..n |-> IF At(a, i) = 1 THEN At(b, i) ELSE At(a, i)]

\* F.cosine_similarity(a, b): dim defaults to 1, which is reduced away.
CosineSimilarity(a, b) == Reduce(Broadcast(a, b), 1)

\* nn.MultiheadAttention(D, ..., batch_first=True)(query, key, value)[0]:
\* one D-vector per query position.
MultiheadAttention(query, key, value, D) == <<query[1], query[2], D>>

\* torch.sum(attn_output * e1, dim=-1) / torch.sqrt(torch.tensor(D)): the
\* divisor is a 0-dim tensor.
CrossSimilarity(attn_output, e1) ==
    LET prod == Broadcast(attn_output, e1)
    IN  Broadcast(Reduce(prod, WrapDim(prod, -1)), <<>>)

\* F.cosine_similarity(embedded1.mean(1), embedded2.mean(1))
BaseSimilarity(embedded1, embedded2) ==
    CosineSimilarity(Reduce(embedded1, 1), Reduce(embedded2, 1))

(***************************************************************************)
(* Data loaders.                                                           *)
(***************************************************************************)
\* DataLoader(dataset, batch_size=32, shuffle=...): drop_last is not given,
\* so it is False.
DataLoader(dataset, shuffle) ==
    [dataset |-> dataset, batch_size |-> BatchSize, shuffle |-> shuffle]

Identity(n) == [i \in 1..n |-> i]
Reversed(n) == [i \in 1..n |-> n + 1 - i]
Rotated(n) == [i \in 1..n |-> (i % n) + 1]

\* The orders of 1 .. n a shuffling sampler is explored with.
Shuffles(n) == {Identity(n), Reversed(n), Rotated(n)}

\* A mutant of LoaderBatches: drop_last=True, an incomplete last batch is
\* not yielded.
LoaderBatchesDropLast(loader, perm) ==
    LET n     == Len(loader.dataset)
        order == IF loader.shuffle THEN perm ELSE Identity(n)
        bs    == loader.batch_size
    IN  [k \in 1 .. (n \div bs) |-> SubSeq(order, (k - 1) * bs + 1, k * bs)]

\* One iteration of a loader: the sampler's order of the dataset's indices
\* (perm when shuffling, else 1 .. n), cut into batches of batch_size; the
\* last batch holds what is left.
LoaderBatches(loader, perm) ==
    LET n     == Len(loader.dataset)
        order == IF loader.shuffle THEN perm ELSE Identity(n)
        bs    == loader.batch_size
    IN  [k \in 1 .. ((n + bs - 1) \div bs) |->
            SubSeq(order, (k - 1) * bs + 1, Min(k * bs, n))]

\* The (index, example) pairs the batches bs of a loader hold.
Yielded(loader, bs) ==
    UNION { { <<bs[k][j], loader.dataset[bs[k][j]]>> : j \in 1 .. Len(bs[k]) } :
            k \in 1 .. Len(bs) }

(***************************************************************************)
(* The notebook as a program: a sequence of cells, each a sequence of      *)
(* statements.                                                             *)
(***************************************************************************)
Stmt(op, names, V, D, N, target) ==
    [op |-> op, names |-> names, V |-> V, D |-> D, N |-> N, target |-> target]

Import(names) == Stmt("import", names, 0, 0, 0, "")
Def(names) == Stmt("def", names, 0, 0, 0, "")
Echo == Stmt("echo", {}, 0, 0, 0, "")
\* target = run_comparison(vocab_size=V, embedding_dim=D, dataset_size=N)
Run(V, D, N, target) == Stmt("run", {}, V, D, N, target)
\* print_results(target, ...)
PrintStmt(target) == Stmt("print", {}, 0, 0, 0, target)

Capped(n) == Min(n, NotebookCap)

\* The names cell 0 imports.
Imports == {"torch", "nn", "F", "DataLoader", "np", "defaultdict", "time"}
\* The names cell 1 defines.
ModelDefs == {"BaseEmbeddingModel", "CrossAttentionModel", "run_comparison"}
\* The global variables the cells assign results to.
ResultNames == {"results", "results_default", "results_small"}

\* The six cells of the notebook, top to bottom.  No cell defines
\* train_and_measure.
NotebookCells ==
    << <<Import(Imports)>>,
       <<Def(ModelDefs)>>,
       <<Run(50, 32, Capped(2000), "results"), PrintStmt("results")>>,
       <<Def({"print_results"}),
         Run(100, 32, Capped(5000), "results"), PrintStmt("results")>>,
       <<Echo, Run(1000, 64, Capped(10000), "results_default"),
         Echo, Run(1000, 32, Capped(10000), "results_small"),
         Def({"print_results"}),
         PrintStmt("results_default"), PrintStmt("results_small")>>,
       <<>> >>

\* The steps of one run_comparison call followed by print_results, in the
\* order the code takes them.
StepOrder ==
    << "data_generated", "split",
       "base_model_constructed", "cross_attn_model_constructed",
       "base_training_started", "base_training_finished",
       "cross_attn_training_started", "cross_attn_training_finished",
       "results_returned", "results_printed" >>

VARIABLES
    \* the kernel: the names defined when the run started, the names defined
    \* now, the global result variables, what print_results has printed, and
    \* the cells that raised
    preloaded, kernel, globals, printed, failed,
    \* the notebook: its cells, the cell being executed and the statement in it
    program, cell, stmt,
    \* run_comparison's frame: its position, arguments and locals
    pc, vocab_size, embedding_dim, dataset_size,
    sequences, labels, data, train_size, train_data, test_data,
    base_model, cross_attn_model, base_results, cross_attn_results,
    \* train_and_measure's frame
    tm_model, tm_epochs, epoch, metrics, batches,
    \* the parameters of the model instances: params[id] counts the training
    \* passes instance id has gone through
    params,
    \* the random source: how many leading items are drawn freely
    free_items,
    \* history: the draw behind each item, the examples each training used,
    \* and the steps of the current call
    origin, used, log,
    \* get_similarity's frame
    sim

nbVars == <<preloaded, kernel, globals, printed, failed, program, cell, stmt>>
argVars == <<vocab_size, embedding_dim, dataset_size>>
genVars == <<sequences, labels, origin>>
splitVars == <<data, train_size, train_data, test_data>>
modelVars == <<base_model, cross_attn_model, params>>
resVars == <<base_results, cross_attn_results>>
tmVars == <<tm_model, tm_epochs, epoch, metrics, batches>>
rcVars == <<pc, argVars, genVars, splitVars, modelVars, resVars, tmVars, used>>
vars == <<nbVars, rcVars, free_items, log, sim>>

\* The statement being executed.
Current == program[cell][stmt]
Running == cell <= Len(program) /\ stmt <= Len(program[cell])
AtStmt(op) == Running /\ pc = "idle" /\ Current.op = op

NoMetrics == [train_loss |-> <<>>, test_loss |-> <<>>, accuracy |-> <<>>]
NoUse == [base_model |-> None, cross_attention |-> None]

\* run_comparison's and train_and_measure's frames when no call is active.
FrameIdle ==
    /\ pc = "idle"
    /\ vocab_size = 0 /\ embedding_dim = 0 /\ dataset_size = 0
    /\ sequences = <<>> /\ labels = <<>> /\ origin = <<>>
    /\ data = None /\ train_size = 0 /\ train_data = None /\ test_data = None
    /\ base_model = None /\ cross_attn_model = None /\ params = <<>>
    /\ base_results = None /\ cross_attn_results = None
    /\ tm_model = 0 /\ tm_epochs = 0 /\ epoch = 0
    /\ metrics = NoMetrics /\ batches = <<>>
    /\ used = NoUse

\* The frames are dropped: a return or an exception leaves run_comparison.
DropFrame ==
    /\ pc' = "idle"
    /\ vocab_size' = 0 /\ embedding_dim' = 0 /\ dataset_size' = 0
    /\ sequences' = <<>> /\ labels' = <<>> /\ origin' = <<>>
    /\ data' = None /\ train_size' = 0 /\ train_data' = None /\ test_data' = None
    /\ base_model' = None /\ cross_attn_model' = None /\ params' = <<>>
    /\ base_results' = None /\ cross_attn_results' = None
    /\ tm_model' = 0 /\ tm_epochs' = 0 /\ epoch' = 0
    /\ metrics' = NoMetrics /\ batches' = <<>>
    /\ used' = NoUse

\* An exception reaches the top of the cell: the rest of the cell is not
\* executed and the next cell is.
Raise(error, name, line) ==
    /\ failed' = failed \cup
         {[cell |-> cell, error |-> error, name |-> name, line |-> line]}
    /\ cell' = cell + 1
    /\ stmt' = 1
    /\ DropFrame
    /\ UNCHANGED <<preloaded, kernel, globals, printed, program, free_items,
                   log, sim>>

(***************************************************************************)
(* The cells' statements.                                                  *)
(***************************************************************************)
\* import ...: binds the imported names.
ExecImport ==
    /\ AtStmt("import")
    /\ kernel' = kernel \cup Current.names
    /\ stmt' = stmt + 1
    /\ UNCHANGED <<preloaded, globals, printed, failed, program, cell,
                   rcVars, free_items, log, sim>>

\* class ... / def ...: binds the defined names; the bodies are not run.
ExecDef ==
    /\ AtStmt("def")
    /\ kernel' = kernel \cup Current.names
    /\ stmt' = stmt + 1
    /\ UNCHANGED <<preloaded, globals, printed, failed, program, cell,
                   rcVars, free_items, log, sim>>

\* print("Running comparison ..."): the builtin print.
ExecEcho ==
    /\ AtStmt("echo")
    /\ stmt' = stmt + 1
    /\ UNCHANGED <<preloaded, kernel, globals, printed, failed, program, cell,
                   rcVars, free_items, log, sim>>

\* The end of a cell: the next cell is executed.
NextCell ==
    /\ cell <= Len(program)
    /\ stmt > Len(program[cell])
    /\ pc = "idle"
    /\ cell' = cell + 1
    /\ stmt' = 1
    /\ UNCHANGED <<preloaded, kernel, globals, printed, failed, program,
                   rcVars, free_items, log, sim>>

(***************************************************************************)
(* run_comparison                                                          *)
(***************************************************************************)
\* run_comparison(vocab_size=V, embedding_dim=D, dataset_size=N) is entered:
\* sequences = [], labels = [].
CallRunComparison ==
    /\ AtStmt("run")
    /\ "run_comparison" \in kernel
    /\ pc' = "gen"
    /\ vocab_size' = Current.V
    /\ embedding_dim' = Current.D
    /\ dataset_size' = Current.N
    /\ sequences' = <<>> /\ labels' = <<>> /\ origin' = <<>>
    /\ log' = <<>>
    /\ UNCHANGED <<nbVars, splitVars, modelVars, resVars, tmVars, used,
                   free_items, sim>>

\* One iteration of the generation loop: the draws, the sequence and the
\* label of the branch taken, and the two appends.
GenItem ==
    /\ pc = "gen"
    /\ Len(sequences) < dataset_size
    /\ TokenHigh(vocab_size) > 0
    /\ \E draw \in (IF Len(sequences) < free_items
                    THEN Draws(vocab_size)
                    ELSE {DefaultDraw(Len(sequences), vocab_size)}) :
          LET item == Item(draw, vocab_size)
          IN  /\ sequences' = SequencesAppend(sequences, item.seq)
              /\ labels' = LabelsAppend(labels, item.label)
              /\ origin' = Append(origin, [pattern |-> draw.pattern,
                                           base_token |-> draw.base_token])
    /\ UNCHANGED <<nbVars, pc, argVars, splitVars, modelVars, resVars, tmVars,
                   used, free_items, log, sim>>

\* torch.randint(0, vocab_size // 4, ...) with vocab_size // 4 = 0 raises:
\* the range of the draw is empty.
GenError ==
    /\ pc = "gen"
    /\ Len(sequences) < dataset_size
    /\ TokenHigh(vocab_size) <= 0
    /\ Raise("RuntimeError", "randint", 84)

\* The loop has run dataset_size times.
GenDone ==
    /\ pc = "gen"
    /\ Len(sequences) >= dataset_size
    /\ pc' = "stack"
    /\ log' = Append(log, "data_generated")
    /\ UNCHANGED <<nbVars, argVars, genVars, splitVars, modelVars, resVars,
                   tmVars, used, free_items, sim>>

\* data = torch.stack(sequences); labels = torch.tensor(labels)
StackData ==
    /\ pc = "stack"
    /\ sequences # <<>>
    /\ data' = Some(sequences)
    /\ pc' = "split"
    /\ UNCHANGED <<nbVars, argVars, genVars, train_size, train_data, test_data,
                   modelVars, resVars, tmVars, used, free_items, log, sim>>

\* torch.stack of an empty list raises.
StackError ==
    /\ pc = "stack"
    /\ sequences = <<>>
    /\ Raise("RuntimeError", "stack", 95)

\* train_size = int(0.8 * len(data))
Split ==
    /\ pc = "split"
    /\ train_size' = TrainSize(Len(data[1]))
    /\ pc' = "train_loader"
    /\ UNCHANGED <<nbVars, argVars, genVars, data, train_data, test_data,
                   modelVars, resVars, tmVars, used, free_items, log, sim>>

\* The training set: list(zip(data[:train_size], labels[:train_size])).
TrainSet == Zip(Take(data[1], train_size), Take(labels, train_size))

\* The test set: list(zip(data[train_size:], labels[train_size:])).
TestSet == Zip(Drop(data[1], train_size), Drop(labels, train_size))

\* train_data = DataLoader(list(zip(...)), batch_size=32, shuffle=True)
TrainLoader ==
    /\ pc = "train_loader"
    /\ train_data' = Some(DataLoader(TrainSet, TRUE))
    /\ pc' = "test_loader"
    /\ UNCHANGED <<nbVars, argVars, genVars, data, train_size, test_data,
                   modelVars, resVars, tmVars, used, free_items, log, sim>>

\* With an empty training set the shuffling sampler of some torch versions
\* refuses to be constructed (num_samples=0); others construct it.
TrainLoaderError ==
    /\ pc = "train_loader"
    /\ TrainSet = <<>>
    /\ Raise("ValueError", "DataLoader", 100)

\* test_data = DataLoader(list(zip(...)), batch_size=32)
TestLoader ==
    /\ pc = "test_loader"
    /\ test_data' = Some(DataLoader(TestSet, FALSE))
    /\ pc' = "base_model"
    /\ log' = Append(log, "split")
    /\ UNCHANGED <<nbVars, argVars, genVars, data, train_size, train_data,
                   modelVars, resVars, tmVars, used, free_items, sim>>

\* A new model instance of class cls: its parameters are its own.
NewModel(cls) ==
    [class |-> cls, id |-> Len(params) + 1,
     vocab_size |-> vocab_size, embedding_dim |-> embedding_dim]

\* base_model = BaseEmbeddingModel(vocab_size, embedding_dim)
ConstructBase ==
    /\ pc = "base_model"
    /\ base_model' = Some(NewModel("BaseEmbeddingModel"))
    /\ params' = Append(params, 0)
    /\ pc' = "cross_attn_model"
    /\ log' = Append(log, "base_model_constructed")
    /\ UNCHANGED <<nbVars, argVars, genVars, splitVars, cross_attn_model,
                   resVars, tmVars, used, free_items, sim>>

\* A mutant of ConstructCross: the second model is the first instance again.
ConstructCrossAliased ==
    /\ pc = "cross_attn_model"
    /\ cross_attn_model' =
         Some([base_model[1] EXCEPT !.class = "CrossAttentionModel"])
    /\ pc' = "train_base"
    /\ log' = Append(log, "cross_attn_model_constructed")
    /\ UNCHANGED <<nbVars, argVars, genVars, splitVars, base_model, params,
                   resVars, tmVars, used, free_items, sim>>

\* cross_attn_model = CrossAttentionModel(vocab_size, embedding_dim)
ConstructCross ==
    /\ pc = "cross_attn_model"
    /\ cross_attn_model' = Some(NewModel("CrossAttentionModel"))
    /\ params' = Append(params, 0)
    /\ pc' = "train_base"
    /\ log' = Append(log, "cross_attn_model_constructed")
    /\ UNCHANGED <<nbVars, argVars, genVars, splitVars, base_model,
                   resVars, tmVars, used, free_items, sim>>

\* train_and_measure is looked up and is not defined.
TrainNameError ==
    /\ pc = "train_base"
    /\ "train_and_measure" \notin kernel
    /\ Raise("NameError", "train_and_measure", 110)

(***************************************************************************)
(* train_and_measure(model, train_data, test_data, epochs).  The notebook  *)
(* holds no definition of it: it trains the model for `epochs` epochs,     *)
(* each one pass over train_data and one evaluation on test_data, and      *)
(* returns {'training_time': ..., 'metrics': {'train_loss': [...],         *)
(* 'test_loss': [...], 'accuracy': [...]}}, one entry per epoch.           *)
(***************************************************************************)
\* The key of the results dictionary the call being run fills.
TrainingKey == IF pc = "training_base" THEN "base_model" ELSE "cross_attention"

EnterTraining(model) ==
    /\ tm_model' = model.id
    /\ tm_epochs' = Epochs
    /\ epoch' = 0
    /\ metrics' = NoMetrics
    /\ batches' = <<>>

\* A mutant of TrainBaseCall: the base model's training is left out.
TrainBaseCallSkipped ==
    /\ pc = "train_base"
    /\ "train_and_measure" \in kernel
    /\ pc' = "train_cross"
    /\ UNCHANGED <<nbVars, argVars, genVars, splitVars, modelVars, resVars,
                   tmVars, used, free_items, log, sim>>

\* base_results = train_and_measure(base_model, train_data, test_data,
\*                                  epochs=20): the call is entered.
TrainBaseCall ==
    /\ pc = "train_base"
    /\ "train_and_measure" \in kernel
    /\ EnterTraining(base_model[1])
    /\ pc' = "training_base"
    /\ log' = Append(log, "base_training_started")
    /\ UNCHANGED <<nbVars, argVars, genVars, splitVars, modelVars, resVars,
                   used, free_items, sim>>

\* cross_attn_results = train_and_measure(cross_attn_model, train_data,
\*                                        test_data, epochs=20)
TrainCrossCall ==
    /\ pc = "train_cross"
    /\ "train_and_measure" \in kernel
    /\ EnterTraining(cross_attn_model[1])
    /\ pc' = "training_cross"
    /\ log' = Append(log, "cross_attn_training_started")
    /\ UNCHANGED <<nbVars, argVars, genVars, splitVars, modelVars, resVars,
                   used, free_items, sim>>

\* One epoch: train_data is iterated once and the model's parameters are
\* updated, test_data is iterated once, and the epoch's training loss, test
\* loss and accuracy are appended.
TrainEpoch ==
    /\ pc \in {"training_base", "training_cross"}
    /\ epoch < tm_epochs
    /\ \E perm \in Shuffles(Len(train_data[1].dataset)) :
          /\ batches' = LoaderBatches(train_data[1], perm)
          /\ used' = [used EXCEPT ![TrainingKey] =
                Some([train |-> Yielded(train_data[1], batches'),
                      test  |-> Yielded(test_data[1],
                                        LoaderBatches(test_data[1], <<>>))])]
    /\ params' = [params EXCEPT ![tm_model] = @ + 1]
    /\ epoch' = epoch + 1
    /\ metrics' = [train_loss |-> Append(metrics.train_loss, epoch + 1),
                   test_loss  |-> Append(metrics.test_loss, epoch + 1),
                   accuracy   |-> Append(metrics.accuracy, epoch + 1)]
    /\ UNCHANGED <<nbVars, pc, argVars, genVars, splitVars, base_model,
                   cross_attn_model, resVars, tm_model, tm_epochs, free_items,
                   log, sim>>

\* All epochs are done: the results are returned to run_comparison.
TrainReturn ==
    /\ pc \in {"training_base", "training_cross"}
    /\ epoch >= tm_epochs
    /\ LET r == Some([training_time |-> "elapsed", metrics |-> metrics])
       IN  IF pc = "training_base"
           THEN /\ base_results' = r
                /\ UNCHANGED cross_attn_results
                /\ pc' = "train_cross"
                /\ log' = Append(log, "base_training_finished")
           ELSE /\ cross_attn_results' = r
                /\ UNCHANGED base_results
                /\ pc' = "return"
                /\ log' = Append(log, "cross_attn_training_finished")
    /\ tm_model' = 0 /\ tm_epochs' = 0 /\ epoch' = 0
    /\ metrics' = NoMetrics /\ batches' = <<>>
    /\ UNCHANGED <<nbVars, argVars, genVars, splitVars, modelVars, used,
                   free_items, sim>>

\* return {'base_model': base_results, 'cross_attention': cross_attn_results},
\* assigned to the cell's result variable.
ReturnResults ==
    /\ pc = "return"
    /\ globals' = [globals EXCEPT ![Current.target] =
                      Some([base_model |-> base_results[1],
                            cross_attention |-> cross_attn_results[1]])]
    /\ stmt' = stmt + 1
    /\ DropFrame
    /\ log' = Append(log, "results_returned")
    /\ UNCHANGED <<preloaded, kernel, printed, failed, program, cell,
                   free_items, sim>>

(***************************************************************************)
(* print_results                                                           *)
(***************************************************************************)
\* list[-1]
Last(list) == list[Len(list)]

\* What print_results prints of one model's results.
Final(r) ==
    [training_time |-> r.training_time,
     train_loss |-> Last(r.metrics.train_loss),
     test_loss  |-> Last(r.metrics.test_loss),
     accuracy   |-> Last(r.metrics.accuracy)]

\* print_results(results, configuration)
PrintResults ==
    /\ AtStmt("print")
    /\ "print_results" \in kernel
    /\ globals[Current.target] # None
    /\ LET results == globals[Current.target][1]
       IN  printed' = Append(printed,
                [base_model |-> Final(results.base_model),
                 cross_attention |-> Final(results.cross_attention)])
    /\ stmt' = stmt + 1
    /\ log' = Append(log, "results_printed")
    /\ UNCHANGED <<preloaded, kernel, globals, failed, program, cell, rcVars,
                   free_items, sim>>

\* print_results is looked up and is not defined.
PrintNameError ==
    /\ AtStmt("print")
    /\ "print_results" \notin kernel
    /\ Raise("NameError", "print_results", 193)

(***************************************************************************)
(* get_similarity(x1, x2), on shapes.                                      *)
(***************************************************************************)
\* self.embedding(x1), self.embedding(x2)
SimEmbed ==
    /\ sim # None
    /\ sim[1].pc = "embed"
    /\ sim' = Some([sim[1] EXCEPT
          !.e1 = Some(Embedding(sim[1].x1, sim[1].D)),
          !.e2 = Some(Embedding(sim[1].x2, sim[1].D)),
          !.pc = IF sim[1].model = "BaseEmbeddingModel"
                 THEN "cosine" ELSE "attend"])
    /\ UNCHANGED <<nbVars, rcVars, free_items, log>>

\* BaseEmbeddingModel: return F.cosine_similarity(embedded1.mean(1),
\*                                               embedded2.mean(1))
BaseSimReturn ==
    /\ sim # None
    /\ sim[1].pc = "cosine"
    /\ sim' = Some([sim[1] EXCEPT
          !.result = Some(BaseSimilarity(sim[1].e1[1], sim[1].e2[1])),
          !.pc = "done"])
    /\ UNCHANGED <<nbVars, rcVars, free_items, log>>

\* CrossAttentionModel: attn_output, _ = self.attention(e1, e2, e2)
SimAttend ==
    /\ sim # None
    /\ sim[1].pc = "attend"
    /\ sim' = Some([sim[1] EXCEPT
          !.attn_output = Some(MultiheadAttention(sim[1].e1[1], sim[1].e2[1],
                                                  sim[1].e2[1], sim[1].D)),
          !.pc = "scale"])
    /\ UNCHANGED <<nbVars, rcVars, free_items, log>>

\* CrossAttentionModel: return torch.sum(attn_output * e1, dim=-1)
\*                             / torch.sqrt(torch.tensor(embedding_dim))
CrossSimReturn ==
    /\ sim # None
    /\ sim[1].pc = "scale"
    /\ sim' = Some([sim[1] EXCEPT
          !.result = Some(CrossSimilarity(sim[1].attn_output[1], sim[1].e1[1])),
          !.pc = "done"])
    /\ UNCHANGED <<nbVars, rcVars, free_items, log>>

(***************************************************************************)
(* Specifications.                                                         *)
(***************************************************************************)
\* A kernel in which the names `pre` are defined, about to execute the
\* cells of `prog`.
InitKernel(pre, prog, free) ==
    /\ preloaded = pre
    /\ kernel = pre
    /\ globals = [n \in ResultNames |-> None]
    /\ printed = <<>>
    /\ failed = {}
    /\ program = prog
    /\ cell = 1
    /\ stmt = 1
    /\ FrameIdle
    /\ free_items = free
    /\ log = <<>>
    /\ sim = None

\* One cell that calls run_comparison and prints the results.
RunAndPrint(V, D, N) == << <<Run(V, D, N, "results"), PrintStmt("results")>> >>

\* The data generation: the kernel after cells 0 and 1, which define all that
\* run_comparison uses down to its first call of train_and_measure.
InitGen ==
    \E V \in GenVocabSizes, N \in 0 .. MaxDatasetSize :
        InitKernel(Imports \cup ModelDefs, RunAndPrint(V, 32, N), GenFreeItems)

NextGen ==
    \/ CallRunComparison
    \/ GenItem
    \/ GenError
    \/ GenDone
    \/ StackData
    \/ StackError
    \/ Split
    \/ TrainLoader
    \/ TrainLoaderError
    \/ TestLoader
    \/ ConstructBase
    \/ ConstructCross
    \/ TrainNameError

SpecGen == InitGen /\ [][NextGen]_vars

\* A whole comparison: a kernel in which train_and_measure and print_results
\* are defined too, as in the session that recorded the cells' outputs.
InitRun ==
    \E V \in RunVocabSizes, N \in RunDatasetSizes :
        InitKernel(Imports \cup ModelDefs \cup {"train_and_measure", "print_results"},
                   RunAndPrint(V, 32, N), 1)

NextRun ==
    \/ CallRunComparison
    \/ GenItem
    \/ GenDone
    \/ StackData
    \/ Split
    \/ TrainLoader
    \/ TestLoader
    \/ ConstructBase
    \/ ConstructCross
    \/ TrainBaseCall
    \/ TrainEpoch
    \/ TrainReturn
    \/ TrainCrossCall
    \/ ReturnResults
    \/ PrintResults
    \/ NextCell

SpecRun == InitRun /\ [][NextRun]_vars

\* The notebook's cells, each executed once, top to bottom: in a fresh
\* kernel, or in one where a definition of train_and_measure was supplied.
InitNotebook ==
    \E pre \in {{}, {"train_and_measure"}} :
        InitKernel(pre, NotebookCells, 0)

NextNotebook ==
    \/ ExecImport
    \/ ExecDef
    \/ ExecEcho
    \/ NextCell
    \/ CallRunComparison
    \/ GenItem
    \/ GenDone
    \/ StackData
    \/ Split
    \/ TrainLoader
    \/ TestLoader
    \/ ConstructBase
    \/ ConstructCross
    \/ TrainNameError
    \/ TrainBaseCall
    \/ TrainEpoch
    \/ TrainReturn
    \/ TrainCrossCall
    \/ ReturnResults
    \/ PrintResults
    \/ PrintNameError

SpecNotebook == InitNotebook /\ [][NextNotebook]_vars

\* get_similarity of either model on a batch of B pairs of sequences of L
\* tokens.
InitShape ==
    /\ preloaded = {} /\ kernel = {}
    /\ globals = [n \in ResultNames |-> None]
    /\ printed = <<>> /\ failed = {}
    /\ program = <<>> /\ cell = 1 /\ stmt = 1
    /\ FrameIdle
    /\ free_items = 0
    /\ log = <<>>
    /\ \E m \in {"BaseEmbeddingModel", "CrossAttentionModel"},
          B \in 1 .. MaxBatch, L \in 1 .. MaxLen,
          D \in {d \in EmbeddingDims : d % NumHeads = 0} :
          sim = Some([model |-> m, x1 |-> <<B, L>>, x2 |-> <<B, L>>, D |-> D,
                      pc |-> "embed", e1 |-> None, e2 |-> None,
                      attn_output |-> None, result |-> None])

NextShape ==
    \/ SimEmbed
    \/ BaseSimReturn
    \/ SimAttend
    \/ CrossSimReturn

SpecShape == InitShape /\ [][NextShape]_vars

(***************************************************************************)
(* The claims.                                                             *)
(***************************************************************************)
Items == 1 .. Len(sequences)

\* C1, as stated: two generated items with equal sequences have equal
\* labels, whichever pattern produced them.
C1_LabelFunctionOfSequence ==
    \A i \in Items, j \in Items :
        sequences[i] = sequences[j] => labels[i] = labels[j]

\* C1, amended: a label is a function of what its item was drawn from.  Two
\* pattern-1 items with equal sequences have equal labels, and two pattern-2
\* items with equal base tokens have equal labels.
C1_LabelFunctionOfDraw ==
    \A i \in Items, j \in Items :
        /\ (/\ origin[i].pattern = 1
            /\ origin[j].pattern = 1
            /\ sequences[i] = sequences[j]) => labels[i] = labels[j]
        /\ (/\ origin[i].pattern = 2
            /\ origin[j].pattern = 2
            /\ origin[i].base_token = origin[j].base_token)
               => labels[i] = labels[j]

\* Two pattern-2 items drawn from the same base token with different noise,
\* and two pattern-1 items with the same sequence, have been generated.
C1_Witness ==
    /\ \E i \in Items, j \in Items :
          /\ origin[i].pattern = 2 /\ origin[j].pattern = 2
          /\ origin[i].base_token = origin[j].base_token
          /\ sequences[i][1] # sequences[j][1]
    /\ \E i \in Items, j \in Items :
          /\ i # j
          /\ origin[i].pattern = 1 /\ origin[j].pattern = 1
          /\ sequences[i] = sequences[j]

\* The generation loop has finished and run_comparison is still running.
LoopFinished == pc \notin {"idle", "gen"}

\* C6: when the generation loop has finished, for dataset_size >= 1, there
\* are exactly dataset_size sequences, each of exactly 10 integer tokens,
\* and exactly dataset_size labels, the label at index i being the one
\* computed for the sequence at index i: (first + last) % vocab_size for a
\* pattern-1 item, (base_token + 3) % vocab_size for a pattern-2 item.
C6_DatasetShape ==
    (LoopFinished /\ dataset_size >= 1) =>
        /\ Len(sequences) = dataset_size
        /\ Len(labels) = dataset_size
        /\ \A i \in 1 .. dataset_size :
              /\ DOMAIN sequences[i] = 1 .. 10
              /\ \A k \in 1 .. 10 : sequences[i][k] \in Int
              /\ labels[i] =
                    IF origin[i].pattern = 1
                    THEN (sequences[i][1] + sequences[i][10]) % vocab_size
                    ELSE (origin[i].base_token[1] + 3) % vocab_size

\* The loop has finished on a dataset of both patterns whose first two
\* labels differ.
C6_Witness ==
    /\ LoopFinished
    /\ dataset_size >= 3
    /\ labels[1] # labels[2]
    /\ \E i \in Items : origin[i].pattern = 1
    /\ \E i \in Items : origin[i].pattern = 2

\* C7: once both loaders are built, the training set is exactly the first
\* floor(0.8 * dataset_size) (sequence, label) pairs of the dataset, in
\* order, and the test set exactly the remaining ones.
C7_SplitIsPartition ==
    test_data # None =>
        /\ 5 * train_size <= 4 * dataset_size
        /\ 4 * dataset_size < 5 * (train_size + 1)
        /\ train_data[1].dataset =
              [i \in 1 .. train_size |-> <<sequences[i], labels[i]>>]
        /\ test_data[1].dataset =
              [i \in 1 .. dataset_size - train_size |->
                  <<sequences[train_size + i], labels[train_size + i]>>]

\* A dataset of 4 or more items with at least two different items is split.
C7_Witness ==
    /\ test_data # None
    /\ dataset_size >= 4
    /\ Len(train_data[1].dataset) = dataset_size - 1
    /\ Len(test_data[1].dataset) = 1
    /\ train_data[1].dataset[1] # train_data[1].dataset[2]

\* C8: for vocab_size >= 4 every token of every generated sequence and
\* every generated label lies in 0 .. vocab_size - 1.
C8_TokensInVocabulary ==
    vocab_size >= 4 =>
        \A i \in Items :
            /\ \A k \in DOMAIN sequences[i] :
                  sequences[i][k] \in 0 .. vocab_size - 1
            /\ labels[i] \in 0 .. vocab_size - 1

\* A pattern-2 item whose base_token + noise was negative before the modulo
\* (base token 0, noise -2) has been generated.
C8_Witness ==
    /\ vocab_size >= 4
    /\ \E i \in Items :
          /\ origin[i].pattern = 2
          /\ origin[i].base_token = Some(0)
          /\ sequences[i][1] = vocab_size - 2

\* C2, as stated: get_similarity of either model returns one score per
\* pair, a result of shape (B,).
C2_OneScorePerPair ==
    (sim # None /\ sim[1].pc = "done") =>
        sim[1].result = Some(<<sim[1].x1[1]>>)

IsPrefix(s, t) == Len(s) <= Len(t) /\ s = SubSeq(t, 1, Len(s))

\* C3: the steps of a call of run_comparison followed by print_results are
\* taken in the fixed order and none is skipped: the whole dataset is
\* generated before the split, the base model is trained through all its
\* epochs before the cross-attention model's training starts, the
\* cross-attention model is untouched while the base model is trained and
\* the base model is untouched afterwards, and both results exist when the
\* results are returned and printed.
C3_FixedOrder ==
    /\ IsPrefix(log, StepOrder)
    /\ pc \in {"stack", "split", "train_loader", "test_loader"}
          => Len(sequences) = dataset_size
    /\ pc \in {"train_base", "training_base"}
          => /\ base_results = None /\ cross_attn_results = None
             /\ params[cross_attn_model[1].id] = 0
    /\ pc \in {"train_cross", "training_cross"}
          => /\ base_results # None /\ cross_attn_results = None
             /\ Len(base_results[1].metrics.train_loss) = 20
             /\ params[base_model[1].id] = 20
    /\ pc = "training_base" => tm_model = base_model[1].id
    /\ pc = "training_cross" => tm_model = cross_attn_model[1].id
    /\ pc = "return"
          => /\ base_results # None /\ cross_attn_results # None
             /\ params[base_model[1].id] = 20
             /\ params[cross_attn_model[1].id] = 20
    /\ globals["results"] # None => Len(log) >= 9
    /\ printed # <<>> => log = StepOrder

\* The results of a whole comparison have been printed.
C3_Witness == printed # <<>> /\ log = StepOrder /\ cell = 2

\* One model's results hold 20 entries per metric list, the k-th being
\* epoch k's.
TwentyEpochs(r) ==
    /\ r.metrics.train_loss = [k \in 1 .. 20 |-> k]
    /\ r.metrics.test_loss = [k \in 1 .. 20 |-> k]
    /\ r.metrics.accuracy = [k \in 1 .. 20 |-> k]

BatchIndices == UNION { { batches[k][j] : j \in 1 .. Len(batches[k]) } :
                        k \in 1 .. Len(batches) }

\* C5: the batches of an epoch's pass over the training loader are
\* ceil(train_size / 32) batches, each of 32 examples except a possibly
\* smaller last one, that hold every index of the training set exactly once;
\* the example at every index is one of the first train_size items of the
\* dataset, so no test example appears.
C5_EpochIsFullPass ==
    (pc \in {"training_base", "training_cross"} /\ epoch > 0) =>
        LET n == train_size
            m == Len(batches)
        IN  /\ 32 * m >= n
            /\ 32 * (m - 1) < n
            /\ \A k \in 1 .. m - 1 : Len(batches[k]) = 32
            /\ m > 0 => Len(batches[m]) \in 1 .. 32
            /\ m > 0 => 32 * (m - 1) + Len(batches[m]) = n
            /\ BatchIndices = 1 .. n
            /\ \A i \in BatchIndices :
                  train_data[1].dataset[i] = <<sequences[i], labels[i]>>

\* An epoch over 33 training examples, shuffled, in a full batch and a batch
\* of one.
C5_Witness ==
    /\ pc = "training_cross"
    /\ epoch > 0
    /\ train_size = 33
    /\ Len(batches) = 2
    /\ Len(batches[2]) = 1
    /\ batches[1][1] # 1

\* The (index, example) pairs of a list of examples, the first at index 1.
Indexed(examples) == { <<i, examples[i]>> : i \in 1 .. Len(examples) }

\* C10: while and after the models are trained the dataset and its split
\* are those generated; both trainings use exactly the training examples and
\* exactly the test examples of the split; the two models are two instances,
\* and training one leaves the other's parameters as they were.
C10_SameDataSeparateModels ==
    /\ pc \in {"train_base", "training_base", "train_cross", "training_cross",
               "return"}
          => /\ data = Some(sequences)
             /\ Len(labels) = dataset_size
             /\ train_data[1].dataset =
                   [i \in 1 .. train_size |-> <<sequences[i], labels[i]>>]
             /\ test_data[1].dataset =
                   [i \in 1 .. dataset_size - train_size |->
                       <<sequences[train_size + i], labels[train_size + i]>>]
             /\ base_model[1].id # cross_attn_model[1].id
    /\ \A key \in {"base_model", "cross_attention"} :
          used[key] # None =>
             /\ used[key][1].train = Indexed(train_data[1].dataset)
             /\ used[key][1].test = Indexed(test_data[1].dataset)
    /\ pc = "return" => /\ used.base_model # None
                        /\ used.base_model = used.cross_attention
    /\ pc \in {"train_base", "training_base", "train_cross"}
          => params[cross_attn_model[1].id] = 0
    /\ pc \in {"train_cross", "training_cross", "return"}
          => params[base_model[1].id] = 20

\* Both models have been trained on a training set of more than one batch.
C10_Witness ==
    /\ pc = "return"
    /\ train_size = 33
    /\ used.base_model # None
    /\ used.cross_attention # None

\* C9, as stated: in a fresh kernel, with each cell executed once, top to
\* bottom, no cell fails on an undefined name.
C9_DefinedBeforeCalled ==
    preloaded = {} => \A f \in failed : f.error # "NameError"
====
